---- MODULE Spec2Model ----
(***************************************************************************)
(* A model of src/app.py: the fund NAV pipeline                            *)
(*   FundDataFetcher.get_fund_nav_data     (HTTP + JSONP + JSON)           *)
(*   FundDataProcessor.fetch_multiple_funds_data  (the aligner)            *)
(*   FundDataProcessor.calculate_yaxis_range                               *)
(*   FundChartGenerator.prepare_chart_data / generate_chart / save         *)
(*   main                                                                  *)
(*                                                                         *)
(* Representation.                                                         *)
(*  - A float is a fixed-point integer counting units of 10^-FracDigits    *)
(*    (1.5 is 150000).  Products with the margin ratio are formed exactly  *)
(*    and rounded half-to-even, as round(x, 4) does on the inputs used     *)
(*    here (none of them lies on a rounding tie).                          *)
(*  - A NAV string is the sequence of its characters; float() on a str is  *)
(*    the operator float_str, which parses it.                             *)
(*  - A date string YYYY-MM-DD is its day ordinal (a natural number, so    *)
(*    that chronological order is <); the empty string is 0.               *)
(*  - A response body is a sequence of tokens.  Only "(", ")" and newline  *)
(*    are seen by the regular expression; every other run of characters    *)
(*    is one token that carries the JSON document it is a piece of.        *)
(*  - Python's None / list results are records [kind, list], because TLC   *)
(*    compares only values of one shape.                                   *)
(*  - The run uses the first two configured funds.                         *)
(***************************************************************************)
EXTENDS Integers, Sequences, FiniteSets, TLC

\* ------------------------------------------------------------------ bounds
\* longest record list a fetch returns in the model
MaxRecs == 2
\* dates are the day ordinals 1..MaxDate
MaxDate == 3
\* longest series handed to calculate_yaxis_range in SpecRange
MaxSeries == 2

\* ------------------------------------------------------- numbers and floats
\* fractional decimal digits of the fixed-point representation of a float
FracDigits == 5

RECURSIVE Pow10(_)
Pow10(n) == IF n = 0 THEN 1 ELSE 10 * Pow10(n - 1)

\* 1.0 in fixed-point units
Unit == Pow10(FracDigits)

Digits == <<"0", "1", "2", "3", "4", "5", "6", "7", "8", "9">>

IsDigit(c) == \E d \in 1..10 : Digits[d] = c

DigitVal(c) == (CHOOSE d \in 1..10 : Digits[d] = c) - 1

AllDigits(s) == \A i \in 1..Len(s) : IsDigit(s[i])

RECURSIVE DigitsValue(_)
DigitsValue(s) ==
    IF s = <<>> THEN 0
    ELSE 10 * DigitsValue(SubSeq(s, 1, Len(s) - 1)) + DigitVal(s[Len(s)])

\* float(s) for a str s: [ok |-> FALSE] stands for ValueError.  The grammar is
\* Python's for the characters used in the model: an optional "-", digits with
\* at most one ".", at least one digit.  (Exponents, "inf", "nan", "+",
\* blanks and underscores are not spelled by any input of the model, and no
\* input has more than FracDigits fractional digits.)
float_str(s) ==
    LET neg  == Len(s) > 0 /\ s[1] = "-"
        body == IF neg THEN Tail(s) ELSE s
        dots == {i \in 1..Len(body) : body[i] = "."}
        p    == IF dots = {} THEN Len(body) + 1 ELSE CHOOSE i \in dots : TRUE
        ip   == SubSeq(body, 1, p - 1)
        fp   == SubSeq(body, p + 1, Len(body))
        ok   == /\ Cardinality(dots) <= 1
                /\ AllDigits(ip) /\ AllDigits(fp)
                /\ Len(ip) + Len(fp) >= 1
                /\ Len(fp) <= FracDigits
        mag  == DigitsValue(ip) * Unit + DigitsValue(fp) * Pow10(FracDigits - Len(fp))
    IN  [ok |-> ok, v |-> IF ok THEN (IF neg THEN 0 - mag ELSE mag) ELSE 0]

\* ------------------------------------------------------------ JSON values
\* A value of the DWJZ field: a JSON string, JSON null, or the key is absent.
NavStr(s) == [k |-> "str", s |-> s]
NavNull == [k |-> "null", s |-> <<>>]
NavMissing == [k |-> "missing", s |-> <<>>]

\* one element of LSJZList
Rec(d, nav) == [FSRQ |-> [k |-> "str", d |-> d], DWJZ |-> nav]

\* the DWJZ values the provider sends in the model:
\* "1.5", "N/A", "", null, and no DWJZ key at all
NavInputs ==
    { NavStr(<<"1", ".", "5">>), NavStr(<<"N", "/", "A">>), NavStr(<<>>), NavNull,
      NavMissing }

Dates == 1..MaxDate

Records == {Rec(d, nav) : d \in Dates, nav \in NavInputs}

\* The provider returns a fund's records newest first: strictly descending dates.
NewestFirst(L) == \A i \in 1..(Len(L) - 1) : L[i].FSRQ.d > L[i + 1].FSRQ.d

RecordLists ==
    UNION { {L \in [1..n -> Records] : NewestFirst(L)} : n \in 0..MaxRecs }

\* A parsed JSON document.  isdict = FALSE is any JSON value that is not an
\* object (a list, a number, null).  ErrMsg "paren" is a message that contains
\* a parenthesised word, such as "error (x)".
Doc(isdict, code, msg, data, lsjz, list) ==
    [isdict |-> isdict, ErrCode |-> code, ErrMsg |-> msg,
     Data |-> data, LSJZList |-> lsjz, list |-> list]

NoDoc == Doc(FALSE, "missing", "missing", "missing", "missing", <<>>)

DocsOther ==
    { Doc(FALSE, "missing", "missing", "missing", "missing", <<>>),
      Doc(TRUE, "missing", "missing", "missing", "missing", <<>>),
      Doc(TRUE, "1", "plain", "missing", "missing", <<>>),
      Doc(TRUE, "1", "paren", "null", "missing", <<>>),
      Doc(TRUE, "0", "missing", "missing", "missing", <<>>),
      Doc(TRUE, "0", "plain", "null", "missing", <<>>),
      Doc(TRUE, "0", "plain", "obj", "missing", <<>>),
      Doc(TRUE, "0", "plain", "obj", "null", <<>>) }

DocsList ==
    {Doc(TRUE, "0", msg, "obj", "list", L) : msg \in {"plain", "paren"}, L \in RecordLists}

Docs == DocsOther \cup DocsList

\* ------------------------------------------------------- response bodies
Tok(t, d) == [t |-> t, doc |-> d]
LP == Tok("(", NoDoc)
RP == Tok(")", NoDoc)
NL == Tok("\n", NoDoc)
CB == Tok("jQuery_cb", NoDoc)
Junk == Tok("junk", NoDoc)

\* The JSON text of a document, on one line.  A document whose ErrMsg holds a
\* parenthesised word has those two parentheses in its text.
Ser(d) ==
    IF d.ErrMsg = "paren"
    THEN <<Tok("head", d), LP, Tok("msg", d), RP, Tok("tail", d)>>
    ELSE <<Tok("whole", d)>>

\* The same text with a line break between two JSON tokens.
SerPretty(d) ==
    IF d.ErrMsg = "paren"
    THEN <<Tok("head", d), LP, Tok("msg", d), RP, Tok("mid", d), NL, Tok("tail", d)>>
    ELSE <<Tok("head", d), NL, Tok("tail", d)>>

\* functionName(<json>)
Jsonp(text) == <<CB, LP>> \o text \o <<RP>>

Bodies ==
    {Jsonp(Ser(d)) : d \in Docs}
    \cup {Jsonp(SerPretty(d)) : d \in DocsOther}
    \cup {Ser(d) : d \in DocsOther}
    \cup {<<>>, <<CB, LP>>, Jsonp(<<Junk>>), Jsonp(<<>>)}

\* What requests.get meets: an exception of the transport, or a response.
Resp(kind, status, text) == [kind |-> kind, status |-> status, text |-> text]

Responses ==
    {Resp("ConnectionError", 0, <<>>), Resp("Timeout", 0, <<>>),
     Resp("http", 404, <<>>), Resp("http", 500, <<>>)}
    \cup {Resp("http", 200, b) : b \in Bodies}

\* --------------------------------------------------- FundDataFetcher
\* re.search(r'\((.*?)\)', text): the leftmost "(" that is followed, before any
\* newline ("." does not match one), by a ")"; group(1) is the text up to the
\* first such ")" (the quantifier is lazy).
re_search(text) ==
    LET closes(i) == {j \in (i + 1)..Len(text) :
                         /\ text[j] = RP
                         /\ \A k \in (i + 1)..(j - 1) : text[k] # NL}
        opens == {i \in 1..Len(text) : text[i] = LP /\ closes(i) # {}}
        Min(S) == CHOOSE x \in S : \A y \in S : x <= y
    IN  IF opens = {}
        THEN [found |-> FALSE, group |-> <<>>]
        ELSE [found |-> TRUE,
              group |-> SubSeq(text, Min(opens) + 1, Min(closes(Min(opens))) - 1)]

\* json.loads(text): the document whose JSON text this is; [ok |-> FALSE] is
\* json.JSONDecodeError.  Line breaks between JSON tokens are white space.
json_loads(text) ==
    LET n == Len(text)
        same(S) == \A i \in S, j \in S : text[i].doc = text[j].doc
        d == IF n = 0 THEN NoDoc ELSE text[1].doc
        whole == n = 1 /\ text[1].t = "whole"
        paren == /\ n = 5 /\ d.ErrMsg = "paren" /\ same({1, 3, 5})
                 /\ text[1].t = "head" /\ text[2] = LP /\ text[3].t = "msg"
                 /\ text[4] = RP /\ text[5].t = "tail"
        pretty == /\ n = 3 /\ d.ErrMsg # "paren" /\ same({1, 3})
                  /\ text[1].t = "head" /\ text[2] = NL /\ text[3].t = "tail"
        prettyparen == /\ n = 7 /\ d.ErrMsg = "paren" /\ same({1, 3, 5, 7})
                       /\ text[1].t = "head" /\ text[2] = LP /\ text[3].t = "msg"
                       /\ text[4] = RP /\ text[5].t = "mid" /\ text[6] = NL
                       /\ text[7].t = "tail"
        ok == whole \/ paren \/ pretty \/ prettyparen
    IN  [ok |-> ok, doc |-> IF ok THEN d ELSE NoDoc]

\* The value get_fund_nav_data returns: None, or a list.
RetNone == [kind |-> "None", list |-> <<>>]
RetList(L) == [kind |-> "list", list |-> L]

\* what one call of get_fund_nav_data leaves behind: the exception that left
\* the function ("none" when it returned), the value returned, the one log
\* call it made, and what it extracted and parsed on the way
Outcome(exc, ret, log, group, doc) ==
    [exc |-> exc, ret |-> ret, log |-> log, group |-> group, doc |-> doc]

NoGroup == [found |-> FALSE, group |-> <<>>]

\* The body of the try block, lines 116-135.  exc # "none" is the exception it
\* raises.
TryBody(resp) ==
    IF resp.kind # "http"
    THEN \* requests.get raises ConnectionError / Timeout
         Outcome(resp.kind, RetNone, "none", NoGroup, NoDoc)
    ELSE IF resp.status >= 400
    THEN \* response.raise_for_status()
         Outcome("HTTPError", RetNone, "none", NoGroup, NoDoc)
    ELSE LET json_match == re_search(resp.text) IN
         IF ~json_match.found
         THEN Outcome("none", RetNone, "warning:format", json_match, NoDoc)
         ELSE LET parsed == json_loads(json_match.group)
                  data == parsed.doc
              IN
         IF ~parsed.ok
         THEN Outcome("JSONDecodeError", RetNone, "none", json_match, NoDoc)
         ELSE IF ~data.isdict
         THEN \* data.get on a value that is no dict
              Outcome("AttributeError", RetNone, "none", json_match, data)
         ELSE IF data.ErrCode # "0"
         THEN Outcome("none", RetNone, "warning:api_error", json_match, data)
         ELSE IF data.Data = "missing"
         THEN \* {}.get("LSJZList", [])
              Outcome("none", RetList(<<>>), "none", json_match, data)
         ELSE IF data.Data = "null"
         THEN \* None.get
              Outcome("AttributeError", RetNone, "none", json_match, data)
         ELSE IF data.LSJZList = "missing"
         THEN Outcome("none", RetList(<<>>), "none", json_match, data)
         ELSE IF data.LSJZList = "null"
         THEN Outcome("none", RetNone, "none", json_match, data)
         ELSE Outcome("none", RetList(data.list), "none", json_match, data)

\* subclasses of requests.RequestException
RequestException == {"ConnectionError", "Timeout", "HTTPError"}

\* the except clause that catches an exception of the try block, in the order
\* of lines 137-145; "uncaught" when none does
ExceptClauseOnlyTyped(exc) ==
    IF exc \in RequestException THEN "error:network"
    ELSE IF exc \in {"JSONDecodeError", "KeyError"} THEN "error:parse"
    ELSE "uncaught"

ExceptClause(exc) ==
    IF exc \in RequestException THEN "error:network"
    ELSE IF exc \in {"JSONDecodeError", "KeyError"} THEN "error:parse"
    ELSE "error:unknown"

\* FundDataFetcher.get_fund_nav_data(code), given what the HTTP call meets
get_fund_nav_data(resp) ==
    LET t == TryBody(resp) IN
    IF t.exc = "none" THEN t
    ELSE IF ExceptClause(t.exc) = "uncaught"
    THEN t
    ELSE Outcome("none", RetNone, ExceptClause(t.exc), t.group, t.doc)

\* what a caller sees of the calls get_fund_nav_data can make: the exception or
\* the value, and the log call
FetchResults ==
    {[exc |-> get_fund_nav_data(r).exc, ret |-> get_fund_nav_data(r).ret,
      log |-> get_fund_nav_data(r).log] : r \in Responses}

\* ------------------------------------------------- FundDataProcessor
\* reversed(data)
ReversedIdentity(data) == data

Reversed(data) == [i \in 1..Len(data) |-> data[Len(data) + 1 - i]]

\* item.get('FSRQ', '')
GetFSRQ(item) == IF item.FSRQ.k = "missing" THEN 0 ELSE item.FSRQ.d

\* item.get('DWJZ', '0')
GetDWJZ(item) == IF item.DWJZ.k = "missing" THEN NavStr(<<"0">>) ELSE item.DWJZ

\* float(nav_value): exc is "none", "ValueError" (a str that is no number) or
\* "TypeError" (None)
float_(nav_value) ==
    IF nav_value.k = "null" THEN [exc |-> "TypeError", v |-> 0]
    ELSE IF float_str(nav_value.s).ok THEN [exc |-> "none", v |-> float_str(nav_value.s).v]
    ELSE [exc |-> "ValueError", v |-> 0]

\* lines 189-190: if index not in date_mapping: date_mapping[index] = date_str
SetDateAlways(date_mapping, index, date_str) ==
    (index :> date_str) @@ date_mapping

SetDate(date_mapping, index, date_str) ==
    IF index \in DOMAIN date_mapping THEN date_mapping
    ELSE (index :> date_str) @@ date_mapping

\* `if not data`: None and the empty list are both falsy
Falsy(ret) == ret.kind = "None" \/ ret.list = <<>>

\* margin_ratio = 0.08, in percent
MarginPct == 8

Max(S) == CHOOSE x \in S : \A y \in S : x >= y
Min(S) == CHOOSE x \in S : \A y \in S : x <= y

\* round(p / den, 4) for the rational p / den of fixed-point units: half to even
Round4(p, den) ==
    LET step == Pow10(FracDigits - 4)
        d == den * step
        f == p \div d
        r == p - f * d
        q == IF 2 * r < d THEN f
             ELSE IF 2 * r > d THEN f + 1
             ELSE IF f % 2 = 0 THEN f ELSE f + 1
    IN  q * step

\* A cell of a pandas column: a float, or NaN.
Num(v) == [nan |-> FALSE, v |-> v]
NaN == [nan |-> TRUE, v |-> 0]

\* the values Series.max() / Series.min() range over: NaN is skipped
Values(series) == {series[i].v : i \in {j \in 1..Len(series) : ~series[j].nan}}

\* FundDataProcessor.calculate_yaxis_range(data_series), margin_ratio = 0.08:
\* the pair <<y_max, y_min>>
calculate_yaxis_range_shrunk(series) ==
    IF Len(series) = 0 THEN <<Unit, 0>>
    ELSE LET y_max == Max(Values(series)) * (100 - MarginPct)
             y_min == Min(Values(series)) * (100 - MarginPct)
         IN  <<Round4(y_max, 100), Round4(IF y_min > 0 THEN y_min ELSE 0, 100)>>

calculate_yaxis_range(series) ==
    IF Len(series) = 0 THEN <<Unit, 0>>
    ELSE LET y_max == Max(Values(series)) * (100 + MarginPct)
             y_min == Min(Values(series)) * (100 - MarginPct)
         IN  <<Round4(y_max, 100), Round4(IF y_min > 0 THEN y_min ELSE 0, 100)>>

\* ------------------------------------------------ FundChartGenerator
\* ALTERNATIVE_FUND_CONFIG (main passes use_alternative=True), its first two
\* entries: <<name, code>>.  The names are transliterated.
fund_config ==
    << <<"HuShen300", "007339">>, <<"ZhongZheng500", "070039">> >>

NumFunds == Len(fund_config)
fund_names == [k \in 1..NumFunds |-> fund_config[k][1]]
fund_codes == [k \in 1..NumFunds |-> fund_config[k][2]]
Codes == {fund_codes[k] : k \in 1..NumFunds}

\* line 309: not date_mapping or not any(fund_data.values())
NoValidDataNever(date_mapping, fund_data) == FALSE

NoValidData(date_mapping, fund_data) ==
    \/ DOMAIN date_mapping = {}
    \/ \A c \in Codes : DOMAIN fund_data[c] = {}

\* line 320: {i: 0.0 for i in range(len(date_mapping))}
ZeroFillShort(date_mapping) ==
    [i \in 0..(Cardinality(DOMAIN date_mapping) - 2) |-> 0]

ZeroFill(date_mapping) ==
    [i \in 0..(Cardinality(DOMAIN date_mapping) - 1) |-> 0]

\* lines 313-320: the dict handed to pd.DataFrame, without the date column
NavDict(date_mapping, fund_data) ==
    [k \in 1..NumFunds |->
        IF DOMAIN fund_data[fund_codes[k]] # {}
        THEN fund_data[fund_codes[k]]
        ELSE ZeroFill(date_mapping)]

\* pd.DataFrame(nav_dict): the index is the union of the keys of the columns;
\* a column without a key has NaN there.  index is the set of row labels,
\* dates the date column, cols the fund columns in configuration order.
DataFrame(date_mapping, nav_dict) ==
    LET index == DOMAIN date_mapping
                 \cup UNION {DOMAIN nav_dict[k] : k \in 1..NumFunds}
    IN  [none |-> FALSE,
         index |-> index,
         dates |-> [i \in index |->
                      IF i \in DOMAIN date_mapping THEN date_mapping[i] ELSE 0],
         cols |-> [k \in 1..NumFunds |->
                     [i \in index |->
                        IF i \in DOMAIN nav_dict[k] THEN Num(nav_dict[k][i]) ELSE NaN]]]

NoFrame == [none |-> TRUE, index |-> {}, dates |-> <<>>, cols |-> <<>>]

\* column.tolist(): the rows in index order.  The row labels are 0..n-1.
ToList(col) == [i \in 1..Cardinality(DOMAIN col) |-> col[i - 1]]

\* generate_chart(nav_data): the x axis, the series, the value-axis bounds and
\* the subtitle's date and day count
Chart(nav_data) ==
    LET dates == ToList(nav_data.dates)
        ranges == [k \in 1..NumFunds |-> calculate_yaxis_range(ToList(nav_data.cols[k]))]
    IN  [none |-> FALSE,
         xaxis |-> dates,
         yaxis |-> [k \in 1..NumFunds |-> ToList(nav_data.cols[k])],
         max_ |-> Max({ranges[k][1] : k \in 1..NumFunds}),
         min_ |-> Min({ranges[k][2] : k \in 1..NumFunds}),
         subtitle_date |-> IF Len(dates) > 0 THEN dates[Len(dates)] ELSE 0,
         subtitle_days |-> Len(dates)]

NoChart == [none |-> TRUE, xaxis |-> <<>>, yaxis |-> <<>>, max_ |-> 0, min_ |-> 0,
            subtitle_date |-> 0, subtitle_days |-> 0]

\* a logger.warning / logger.error call: its level and message, the fund code
\* and the offset it names ("" and -1 when it names none)
LogEntry(what, code, index) == [what |-> what, code |-> code, index |-> index]

\* ------------------------------------------------------------------ state
VARIABLES
    \* a run of main()
    pc,            \* where the run is
    idx,           \* position in fund_codes of the fund of the outer loop
    data,          \* the record list fetched for that fund
    index,         \* enumerate()'s counter of the inner loop
    date_mapping,  \* offset -> date
    fund_data,     \* code -> (offset -> NAV)
    log,           \* the warnings and errors logged so far
    exc,           \* the exception raised last ("none" when none was)
    nav_data,      \* what prepare_chart_data returned
    chart,         \* what generate_chart returned
    html,          \* TRUE once index.html is written
    \* one call of get_fund_nav_data, on its own (SpecFetch)
    resp,          \* what the HTTP call meets
    fpc,           \* "call" before the call, "returned" / "raised" after it
    fout,          \* the Outcome of the call
    \* calculate_yaxis_range, on its own (SpecRange)
    data_series,   \* the series given
    rpc,           \* "call" / "returned"
    yrange         \* the pair returned: <<y_max, y_min>>

mvars == <<pc, idx, data, index, date_mapping, fund_data, log, exc, nav_data, chart, html>>
fvars == <<resp, fpc, fout>>
rvars == <<data_series, rpc, yrange>>
vars == <<pc, idx, data, index, date_mapping, fund_data, log, exc, nav_data, chart, html,
          resp, fpc, fout, data_series, rpc, yrange>>

NoOutcome == Outcome("none", RetNone, "none", NoGroup, NoDoc)

MainIdle ==
    /\ pc = "idle" /\ idx = 0 /\ data = <<>> /\ index = 0
    /\ date_mapping = <<>> /\ fund_data = [c \in Codes |-> <<>>]
    /\ log = <<>> /\ exc = "none"
    /\ nav_data = NoFrame /\ chart = NoChart /\ html = FALSE

FetchIdle == resp = Resp("http", 200, <<>>) /\ fpc = "idle" /\ fout = NoOutcome

RangeIdle == data_series = <<>> /\ rpc = "idle" /\ yrange = <<0, 0>>

\* --------------------------------------------------------- Spec: main()
Init ==
    /\ pc = "main" /\ idx = 0 /\ data = <<>> /\ index = 0
    /\ date_mapping = <<>> /\ fund_data = [c \in Codes |-> <<>>]
    /\ log = <<>> /\ exc = "none"
    /\ nav_data = NoFrame /\ chart = NoChart /\ html = FALSE
    /\ FetchIdle /\ RangeIdle

\* main() up to the first iteration of the fund loop: lines 482-486, 306-307,
\* 174-175
StartFetch ==
    /\ pc = "main"
    /\ date_mapping' = <<>>
    /\ fund_data' = [c \in Codes |-> <<>>]
    /\ idx' = 1
    /\ pc' = "fetch"
    /\ UNCHANGED <<data, index, log, exc, nav_data, chart, html, fvars, rvars>>

\* lines 177-183: one iteration of the fund loop up to the inner loop
FetchFund ==
    /\ pc = "fetch" /\ idx <= NumFunds
    /\ \E out \in FetchResults :
         LET code == fund_codes[idx]
             flog == IF out.log = "none" THEN <<>> ELSE <<LogEntry(out.log, code, -1)>>
         IN  IF out.exc # "none"
             THEN /\ exc' = out.exc
                  /\ pc' = "raised"
                  /\ UNCHANGED <<idx, data, index, log>>
             ELSE IF Falsy(out.ret)
             THEN /\ log' = log \o flog \o <<LogEntry("warning:skipped", code, -1)>>
                  /\ idx' = idx + 1
                  /\ UNCHANGED <<pc, data, index, exc>>
             ELSE /\ data' = out.ret.list
                  /\ index' = 0
                  /\ pc' = "records"
                  /\ log' = log \o flog
                  /\ UNCHANGED <<idx, exc>>
    /\ UNCHANGED <<date_mapping, fund_data, nav_data, chart, html, fvars, rvars>>

\* lines 185-196: one iteration of the record loop
ProcessRecord ==
    /\ pc = "records" /\ index < Len(data)
    /\ LET code == fund_codes[idx]
           item == Reversed(data)[index + 1]
           date_str == GetFSRQ(item)
           nav_value == GetDWJZ(item)
           f == float_(nav_value)
       IN  /\ date_mapping' = SetDate(date_mapping, index, date_str)
           /\ IF f.exc = "TypeError"
              THEN /\ exc' = "TypeError"
                   /\ pc' = "raised"
                   /\ UNCHANGED <<fund_data, log, index>>
              ELSE /\ fund_data' = [fund_data EXCEPT ![code] = (index :> f.v) @@ @]
                   /\ log' = IF f.exc = "ValueError"
                             THEN Append(log, LogEntry("warning:nav_format", code, index))
                             ELSE log
                   /\ index' = index + 1
                   /\ UNCHANGED <<pc, exc>>
    /\ UNCHANGED <<idx, data, nav_data, chart, html, fvars, rvars>>

\* the record loop is exhausted: the next fund
NextFund ==
    /\ pc = "records" /\ index = Len(data)
    /\ idx' = idx + 1
    /\ data' = <<>>
    /\ index' = 0
    /\ pc' = "fetch"
    /\ UNCHANGED <<date_mapping, fund_data, log, exc, nav_data, chart, html, fvars, rvars>>

\* lines 198, 307-327: fetch_multiple_funds_data returns and prepare_chart_data
\* builds the frame, or returns None
PrepareChartData ==
    /\ pc = "fetch" /\ idx = NumFunds + 1
    /\ IF NoValidData(date_mapping, fund_data)
       THEN /\ log' = Append(log, LogEntry("error:no_valid_data", "", -1))
            /\ nav_data' = NoFrame
       ELSE /\ log' = log \o
                 [j \in 1..Cardinality({k \in 1..NumFunds : DOMAIN fund_data[fund_codes[k]] = {}}) |->
                    LogEntry("warning:zero_fill",
                             fund_codes[CHOOSE k \in 1..NumFunds :
                                 /\ DOMAIN fund_data[fund_codes[k]] = {}
                                 /\ Cardinality({m \in 1..k : DOMAIN fund_data[fund_codes[m]] = {}}) = j],
                             -1)]
            /\ nav_data' = DataFrame(date_mapping, NavDict(date_mapping, fund_data))
    /\ pc' = "prepared"
    /\ UNCHANGED <<idx, data, index, date_mapping, fund_data, exc, chart, html, fvars, rvars>>

\* lines 488-490: nav_data is None
MainAbort ==
    /\ pc = "prepared" /\ nav_data.none
    /\ log' = Append(log, LogEntry("error:terminated", "", -1))
    /\ pc' = "done"
    /\ UNCHANGED <<idx, data, index, date_mapping, fund_data, exc, nav_data, chart, html,
                   fvars, rvars>>

\* line 492: generate_chart
GenerateChart ==
    /\ pc = "prepared" /\ ~nav_data.none
    /\ chart' = Chart(nav_data)
    /\ pc' = "generated"
    /\ UNCHANGED <<idx, data, index, date_mapping, fund_data, log, exc, nav_data, html,
                   fvars, rvars>>

\* lines 494-504: save_chart_to_html and the summary
SaveChart ==
    /\ pc = "generated"
    /\ html' = TRUE
    /\ pc' = "done"
    /\ UNCHANGED <<idx, data, index, date_mapping, fund_data, log, exc, nav_data, chart,
                   fvars, rvars>>

\* lines 506-509: main's `except Exception`
MainExcept ==
    /\ pc = "raised"
    /\ log' = Append(log, LogEntry("error:main", "", -1))
    /\ pc' = "done"
    /\ UNCHANGED <<idx, data, index, date_mapping, fund_data, exc, nav_data, chart, html,
                   fvars, rvars>>

Next ==
    \/ StartFetch
    \/ FetchFund
    \/ ProcessRecord
    \/ NextFund
    \/ PrepareChartData
    \/ MainAbort
    \/ GenerateChart
    \/ SaveChart
    \/ MainExcept

Spec == Init /\ [][Next]_vars

\* ----------------------------------------------------- SpecFetch: one call
InitFetch ==
    /\ resp \in Responses
    /\ fpc = "call"
    /\ fout = NoOutcome
    /\ MainIdle /\ RangeIdle

CallFetch ==
    /\ fpc = "call"
    /\ fout' = get_fund_nav_data(resp)
    /\ fpc' = IF fout'.exc = "none" THEN "returned" ELSE "raised"
    /\ UNCHANGED <<resp, mvars, rvars>>

NextFetch == CallFetch

SpecFetch == InitFetch /\ [][NextFetch]_vars

\* ------------------------------------- SpecRange: calculate_yaxis_range
\* the NAV strings whose values make up the series of SpecRange
RangeStrings ==
    { <<"0">>, <<"0", ".", "0", "0", "0", "0", "1">>, <<"0", ".", "0", "0", "0", "0", "6">>,
      <<"0", ".", "0", "0", "0", "4">>, <<"1", ".", "0">>, <<"1", ".", "2">>,
      <<"2", ".", "2">>, <<"-", "1", ".", "5">> }

RangeValues == {float_str(s).v : s \in RangeStrings}

InitRange ==
    /\ data_series \in UNION { [1..n -> {Num(v) : v \in RangeValues}] : n \in 0..MaxSeries }
    /\ rpc = "call"
    /\ yrange = <<0, 0>>
    /\ MainIdle /\ FetchIdle

CallRange ==
    /\ rpc = "call"
    /\ yrange' = calculate_yaxis_range(data_series)
    /\ rpc' = "returned"
    /\ UNCHANGED <<data_series, mvars, fvars>>

NextRange == CallRange

SpecRange == InitRange /\ [][NextRange]_vars

\* ================================================================ claims
\* ------------------------------------------------------ helpers of claims
HasLog(what) == \E i \in 1..Len(log) : log[i].what = what

\* the aligner logged that the fetch of this fund failed (line 182)
Skipped(code) == \E i \in 1..Len(log) : log[i] = LogEntry("warning:skipped", code, -1)

\* fetch_multiple_funds_data has returned to prepare_chart_data
Returned == pc \in {"prepared", "generated", "done"} /\ exc = "none"

\* the number of offsets of a fund's series
SeriesLen(k) == Cardinality(DOMAIN fund_data[fund_codes[k]])

\* ------------------------------------------------------------------- C1
\* C1: get_fund_nav_data never raises to its caller.  Whatever the HTTP call
\* meets (connection error, timeout, status >= 400, a body without wrapper, a
\* wrapped text that is no JSON, a payload that is no object, a missing or
\* non-zero ErrCode, a payload without Data / LSJZList), the call returns, and
\* what it returns is None, the empty list, or the LSJZList of the document the
\* body wraps.
C1_NeverRaises ==
    /\ fpc # "raised"
    /\ fpc = "returned" =>
         /\ fout.exc = "none"
         /\ \/ Falsy(fout.ret)
            \/ \E d \in DocsList :
                 /\ resp = Resp("http", 200, Jsonp(Ser(d)))
                 /\ fout.ret = RetList(d.list)
         /\ (resp.kind # "http" \/ resp.status >= 400) => fout.ret = RetNone

\* C1's case: a payload that is valid JSON but no object, whose data.get raises
\* AttributeError inside the try block, has been answered with None
C1_Witness ==
    /\ fpc = "returned"
    /\ resp = Resp("http", 200, Jsonp(Ser(Doc(FALSE, "missing", "missing", "missing", "missing", <<>>))))
    /\ fout.ret = RetNone
    /\ fout.log = "error:unknown"

\* ------------------------------------------------------------------- C7
\* the text between the first "(" and the ")" that balances it
BalancedGroup(text) ==
    LET opens == {i \in 1..Len(text) : text[i] = LP}
        i0 == Min(opens)
        count(t, a, b) == Cardinality({k \in a..b : text[k] = t})
        ends == {j \in (i0 + 1)..Len(text) : count(LP, i0, j) = count(RP, i0, j)}
    IN  IF opens = {} \/ ends = {} THEN <<>>
        ELSE SubSeq(text, i0 + 1, Min(ends) - 1)

\* C7 (as claimed): for every one-line body functionName(<json>), the fetcher
\* extracts exactly the text enclosed by the first balanced pair of parentheses
\* and parses that text as JSON, also when the JSON text itself contains "("
\* or ")".
C7_BalancedExtraction ==
    \A d \in Docs :
        (fpc = "returned" /\ resp = Resp("http", 200, Jsonp(Ser(d)))) =>
            /\ fout.group.found
            /\ fout.group.group = BalancedGroup(resp.text)
            /\ fout.group.group = Ser(d)
            /\ fout.doc = d

\* ------------------------------------------------------------------- C6
\* C6 (as claimed): for any non-empty series S, the pair returned, rounded to 4
\* decimal places, satisfies yMin <= min(S) <= max(S) <= yMax and yMin >= 0.
C6_RangeEnclosesSeries ==
    (rpc = "returned" /\ Len(data_series) >= 1) =>
        /\ yrange[2] <= Min(Values(data_series))
        /\ Min(Values(data_series)) <= Max(Values(data_series))
        /\ Max(Values(data_series)) <= yrange[1]
        /\ yrange[2] >= 0

\* every value of the series is non-negative and has at most 4 decimal places
FourDecimalNonNegative(series) ==
    \A v \in Values(series) : v >= 0 /\ v % Pow10(FracDigits - 4) = 0

\* C6 (amended): for any non-empty series S of non-negative values with at most
\* 4 decimal places, the pair returned, rounded to 4 decimal places, satisfies
\* yMin <= min(S) <= max(S) <= yMax and yMin >= 0.
C6_RangeEnclosesFourDecimalSeries ==
    (rpc = "returned" /\ Len(data_series) >= 1 /\ FourDecimalNonNegative(data_series)) =>
        /\ yrange[2] <= Min(Values(data_series))
        /\ Min(Values(data_series)) <= Max(Values(data_series))
        /\ Max(Values(data_series)) <= yrange[1]
        /\ yrange[2] >= 0

\* C6's case: the range of a series of two different 4-decimal values, with a
\* real margin on both sides
C6_Witness ==
    /\ rpc = "returned" /\ Len(data_series) = 2
    /\ FourDecimalNonNegative(data_series)
    /\ Min(Values(data_series)) < Max(Values(data_series))
    /\ 0 < yrange[2] /\ yrange[2] < Min(Values(data_series))
    /\ Max(Values(data_series)) < yrange[1]

\* ------------------------------------------------------------------- C2
\* the fund loop is over: it ran to its end, or an exception ended it
LoopOver ==
    \/ pc \in {"raised", "prepared", "generated", "done"}
    \/ pc = "fetch" /\ idx = NumFunds + 1

\* C2 (as claimed): whichever funds' fetches fail, a failing fund is left with an
\* empty series and every other fund of the list is still fetched and aligned
\* (every fund is reached by the loop and its record loop runs to its end).
C2_FailureDoesNotAbortBatch ==
    LoopOver =>
        \A k \in 1..NumFunds :
            Skipped(fund_codes[k]) =>
                /\ DOMAIN fund_data[fund_codes[k]] = {}
                /\ \A j \in 1..NumFunds : j < idx

\* ------------------------------------------------------------------- C5
\* a DWJZ value that is no number: null, or a string float() rejects
NotANumber(nav) == nav.k = "null" \/ (nav.k = "str" /\ ~float_str(nav.s).ok)

\* the record loop has reached offset i of the current fund
Attempted(i) == i < index \/ (pc = "raised" /\ i = index)

WarnCount(code, i) ==
    Cardinality({j \in 1..Len(log) : log[j] = LogEntry("warning:nav_format", code, i)})

\* C5 (as claimed): for every record whose DWJZ is no number (a non-numeric
\* string, the empty string, or null) the aligner stores exactly 0.0 at that
\* offset of the fund, logs exactly one warning for it, and goes on with the
\* remaining records and funds.
C5_BadNavBecomesZero ==
    pc \in {"records", "raised"} =>
        \A i \in 0..(Len(data) - 1) :
            (Attempted(i) /\ NotANumber(data[Len(data) - i].DWJZ)) =>
                /\ pc = "records"
                /\ i \in DOMAIN fund_data[fund_codes[idx]]
                /\ fund_data[fund_codes[idx]][i] = 0
                /\ WarnCount(fund_codes[idx], i) = 1

\* ------------------------------------------------------------------- C3
\* C3: if the fetch of every configured fund fails, the run generates no chart,
\* writes no index.html, logs an error in prepare_chart_data and in main, and
\* no exception is raised.
C3_AllFailNoOutput ==
    (\A c \in Codes : Skipped(c)) =>
        /\ chart.none /\ ~html /\ nav_data.none
        /\ exc = "none"
        /\ pc \in {"fetch", "prepared", "done"}
        /\ pc \in {"prepared", "done"} => HasLog("error:no_valid_data")
        /\ pc = "done" => HasLog("error:terminated")

\* C3's case: main() has ended after every fetch failed
C3_Witness == pc = "done" /\ \A c \in Codes : Skipped(c)

\* ------------------------------------------------------------------- C4
\* C4: when chart data is produced and the fetch of a fund failed entirely, the
\* chart data holds a series for that fund whose length is that of the
\* DateIndex (and of the longest successful series), every value 0.0, and a
\* warning naming the fund is logged.
C4_FailedFundIsZeroSeries ==
    (pc \in {"prepared", "generated", "done"} /\ ~nav_data.none) =>
        \A k \in 1..NumFunds :
            Skipped(fund_codes[k]) =>
                /\ Len(ToList(nav_data.cols[k])) = Cardinality(DOMAIN date_mapping)
                /\ Len(ToList(nav_data.cols[k])) = Max({SeriesLen(j) : j \in 1..NumFunds})
                /\ \A i \in nav_data.index : nav_data.cols[k][i] = Num(0)
                /\ \E i \in 1..Len(log) :
                       log[i] = LogEntry("warning:zero_fill", fund_codes[k], -1)
                /\ ~chart.none => /\ Len(chart.yaxis[k]) = Len(chart.xaxis)
                                  /\ \A i \in 1..Len(chart.yaxis[k]) : chart.yaxis[k][i] = Num(0)

\* C4's case: a chart was generated from one successful fund of two records
\* and one fund whose fetch failed
C4_Witness ==
    /\ pc = "generated" /\ ~chart.none
    /\ \E k \in 1..NumFunds : Skipped(fund_codes[k])
    /\ Cardinality(DOMAIN date_mapping) = 2

\* ------------------------------------------------------------------- C8
\* C8: DateIndex is write-once per offset.  No step changes or removes the date
\* of an offset that is set, and an offset is set only by the record at that
\* offset of the fund being processed, to that record's date.
C8_DateIndexWriteOnce ==
    [][ /\ \A off \in DOMAIN date_mapping :
              off \in DOMAIN date_mapping' /\ date_mapping'[off] = date_mapping[off]
        /\ \A off \in (DOMAIN date_mapping') \ (DOMAIN date_mapping) :
              /\ pc = "records" /\ off = index
              /\ date_mapping'[off] = data[Len(data) - index].FSRQ.d
      ]_vars

\* C8's case: the second fund has passed an offset that the first fund had set
\* to another date, and the first fund's date is still there
C8_Witness ==
    /\ pc = "records" /\ idx = 2 /\ index >= 1
    /\ SeriesLen(1) >= 1
    /\ date_mapping[0] # data[Len(data)].FSRQ.d

\* ------------------------------------------------------------------- C9
\* the float stored for a record: its DWJZ parsed, 0.0 when it is no number
StoredValue(item) ==
    IF item.DWJZ.k = "str" /\ float_str(item.DWJZ.s).ok THEN float_str(item.DWJZ.s).v ELSE 0

\* no fund before the current one returned records
FirstSuccessful == \A k \in 1..(idx - 1) : SeriesLen(k) = 0

\* the walk of the current fund's records is over: the record loop ran to its
\* end, or an exception left it
WalkOver ==
    \/ pc = "records" /\ index = Len(data)
    \/ pc = "raised" /\ Len(data) >= 1

\* C9 (as claimed): for every fund whose fetch returns n >= 1 records
\* r[0..n-1], newest first, the fund's series has exactly the offsets 0..n-1,
\* offset i holds the value of r[n-1-i], and for the first successful fund
\* DateIndex[i] is the date of r[n-1-i].
C9_OffsetsFollowReversal ==
    WalkOver =>
        LET n == Len(data)
            series == fund_data[fund_codes[idx]]
        IN  /\ n >= 1
            /\ DOMAIN series = 0..(n - 1)
            /\ \A i \in 0..(n - 1) : series[i] = StoredValue(data[n - i])
            /\ FirstSuccessful =>
                 \A i \in 0..(n - 1) : date_mapping[i] = data[n - i].FSRQ.d

\* ------------------------------------------------------------------ C10
\* the date the chart's subtitle shows is the most recent date of the DateIndex
SubtitleIsLatest ==
    (pc \in {"generated", "done"} /\ ~chart.none) =>
        chart.subtitle_date = Max({date_mapping[i] : i \in DOMAIN date_mapping})

\* C10 (as claimed): with newest-first records, also of different counts per
\* fund, the DateIndex returned lists its dates in ascending order by offset,
\* so the date of the chart's subtitle is the most recent one.
C10_DateIndexAscending ==
    Returned =>
        /\ \A i, j \in DOMAIN date_mapping : i < j => date_mapping[i] <= date_mapping[j]
        /\ SubtitleIsLatest

\* no fund returned more records than the first fund that returned any
NoFundLongerThanFirst ==
    \A k \in 1..NumFunds :
        (SeriesLen(k) > 0 /\ \A m \in 1..(k - 1) : SeriesLen(m) = 0) =>
            \A j \in 1..NumFunds : SeriesLen(j) <= SeriesLen(k)

\* C10 (amended): with newest-first records, when no fund returns more records
\* than the first fund in list order that returns any, the DateIndex returned
\* lists its dates in strictly ascending order by offset, so the date of the
\* chart's subtitle is the most recent one.
C10_DateIndexAscendingWhenFirstLongest ==
    (Returned /\ NoFundLongerThanFirst) =>
        /\ \A i, j \in DOMAIN date_mapping : i < j => date_mapping[i] < date_mapping[j]
        /\ SubtitleIsLatest

\* C10's case: a chart was generated from two funds of different record counts,
\* the first the longer one
C10_Witness ==
    /\ pc = "generated" /\ ~chart.none
    /\ SeriesLen(1) = 2 /\ SeriesLen(2) = 1
    /\ chart.subtitle_date = date_mapping[1]

====
